---------------------------- MODULE Spec2Model ----------------------------
(***************************************************************************)
(* Model of the map generation steps of ofws_core:                         *)
(*   - Distortion1d        (data/map/generation/attributes/distortion1d.rs)*)
(*   - ModifyWithAttribute (data/map/generation/attributes/modify.rs)      *)
(* together with their serializable mirrors (Distortion1dData,             *)
(* ModifyWithAttributeData) and the conversions between both forms.        *)
(*                                                                         *)
(* Rust's f32 is modelled bit-exactly for finite, normal values: a float   *)
(* is a record [s, m, e] standing for s * m * 2^e with s in {1, -1} and a  *)
(* 24 bit significand m in 2^23 .. 2^24-1, or m = 0 for zero.  Every       *)
(* operation rounds to nearest, ties to even, like the hardware does.      *)
(***************************************************************************)
EXTENDS Integers, Sequences, FiniteSets, TLC

(***************************************************************************)
(* f32 arithmetic                                                          *)
(***************************************************************************)

\* Number of significand bits of an f32 (including the hidden bit).
MantissaBits == 24

\* 2^23, the smallest normalised significand.
MinMant == 2 ^ (MantissaBits - 1)

\* 2^24, one more than the largest significand.
MantLimit == 2 ^ MantissaBits

F32Zero == [s |-> 1, m |-> 0, e |-> 0]

RECURSIVE BitLen(_)
\* Number of bits of the natural number n (0 for n = 0).
BitLen(n) == IF n = 0 THEN 0 ELSE 1 + BitLen(n \div 2)

\* Rounds the natural number n * 2^e (n < 2^31) to the nearest f32 with
\* sign s, ties to even.
F32Round(s, n, e) ==
    IF n = 0 THEN F32Zero
    ELSE LET len == BitLen(n) IN
         IF len <= MantissaBits
         THEN [s |-> s, m |-> n * 2 ^ (MantissaBits - len),
               e |-> e - (MantissaBits - len)]
         ELSE LET drop == len - MantissaBits
                  q    == n \div 2 ^ drop
                  r    == n % 2 ^ drop
                  half == 2 ^ (drop - 1)
                  up   == r > half \/ (r = half /\ q % 2 = 1)
                  q2   == IF up THEN q + 1 ELSE q
              IN IF q2 = MantLimit
                 THEN [s |-> s, m |-> MinMant, e |-> e + drop + 1]
                 ELSE [s |-> s, m |-> q2, e |-> e + drop]

\* `i as f32` for an i32 (also used for `u8 as f32`).
I32ToF32(i) == IF i < 0 THEN F32Round(-1, -i, 0) ELSE F32Round(1, i, 0)

\* Rounds the 48 bit product hi * 2^24 + lo of two normalised significands.
F32RoundProduct(s, hi, lo, e) ==
    LET top  == hi >= MinMant
        q    == IF top THEN hi ELSE hi * 2 + lo \div MinMant
        r    == IF top THEN lo ELSE lo % MinMant
        half == IF top THEN MinMant ELSE MinMant \div 2
        ex   == IF top THEN e + MantissaBits ELSE e + MantissaBits - 1
        up   == r > half \/ (r = half /\ q % 2 = 1)
        q2   == IF up THEN q + 1 ELSE q
    IN IF q2 = MantLimit
       THEN [s |-> s, m |-> MinMant, e |-> ex + 1]
       ELSE [s |-> s, m |-> q2, e |-> ex]

\* a * b on f32.  The 48 bit product of the significands is built from
\* 12 bit halves so that no intermediate value needs more than 31 bits.
F32Mul(a, b) ==
    IF a.m = 0 \/ b.m = 0 THEN F32Zero
    ELSE LET base == 2 ^ 12
             ah == a.m \div base
             al == a.m % base
             bh == b.m \div base
             bl == b.m % base
             mid == ah * bl + al * bh
             low == (mid % base) * base + al * bl
             hi == ah * bh + mid \div base + low \div MantLimit
             lo == low % MantLimit
         IN F32RoundProduct(a.s * b.s, hi, lo, a.e + b.e)

RECURSIVE DivBits(_, _, _, _)
\* n further steps of the binary long division of r by d, quotient so far q.
DivBits(q, r, d, n) ==
    IF n = 0 THEN <<q, r>>
    ELSE IF 2 * r >= d THEN DivBits(2 * q + 1, 2 * r - d, d, n - 1)
         ELSE DivBits(2 * q, 2 * r, d, n - 1)

\* a / b on f32 (b is not zero).
F32Div(a, b) ==
    IF a.m = 0 THEN F32Zero
    ELSE LET big == a.m >= b.m
             qr  == IF big THEN DivBits(1, a.m - b.m, b.m, MantissaBits - 1)
                    ELSE DivBits(0, a.m, b.m, MantissaBits)
             q   == qr[1]
             r   == qr[2]
             ex  == IF big THEN a.e - b.e - (MantissaBits - 1)
                    ELSE a.e - b.e - MantissaBits
             up  == 2 * r > b.m \/ (2 * r = b.m /\ q % 2 = 1)
             q2  == IF up THEN q + 1 ELSE q
         IN IF q2 = MantLimit
            THEN [s |-> a.s * b.s, m |-> MinMant, e |-> ex + 1]
            ELSE [s |-> a.s * b.s, m |-> q2, e |-> ex]

\* TRUE iff |a| >= |b| for two normalised floats.
F32AbsGeq(a, b) ==
    IF b.m = 0 THEN TRUE
    ELSE IF a.m = 0 THEN FALSE
    ELSE a.e > b.e \/ (a.e = b.e /\ a.m >= b.m)

\* big + small on f32 where |big| >= |small|: the significands are aligned
\* with three extra bits (guard, round, sticky), added and rounded.
F32AddOrdered(big, small) ==
    IF small.m = 0 THEN big
    ELSE LET shift == big.e - small.e IN
         IF shift > MantissaBits + 2 THEN big
         ELSE LET x == big.m * 8
                  full == small.m * 8
                  cut == full \div 2 ^ shift
                  sticky == full % 2 ^ shift # 0
                  y == IF sticky /\ cut % 2 = 0 THEN cut + 1 ELSE cut
                  sum == IF big.s = small.s THEN x + y ELSE x - y
              IN F32Round(big.s, sum, big.e - 3)

\* a + b on f32.
F32Add(a, b) == IF F32AbsGeq(a, b) THEN F32AddOrdered(a, b) ELSE F32AddOrdered(b, a)

\* The integer part of |f|, or `limit` when it is larger than `limit`.
F32TruncAbs(f, limit) ==
    IF f.m = 0 THEN 0
    ELSE IF f.e >= 8 THEN limit
    ELSE IF f.e >= 0 THEN (IF f.m * 2 ^ f.e > limit THEN limit ELSE f.m * 2 ^ f.e)
    ELSE IF -f.e >= MantissaBits THEN 0
    ELSE LET t == f.m \div 2 ^ (-f.e) IN IF t > limit THEN limit ELSE t

\* 2^31 - 1
I32Max == 2147483647

\* `f as i32`: truncates towards zero and saturates at -2^31 and 2^31 - 1.
F32ToI32(f) ==
    IF f.s < 0 /\ f.m # 0 /\ f.e >= 8 THEN -I32Max - 1
    ELSE f.s * F32TruncAbs(f, I32Max)

\* The largest u8.
U8Max == 255

\* `f as u8`: truncates towards zero and saturates at 0 and 255.
F32ToU8(f) == IF f.s < 0 THEN 0 ELSE F32TruncAbs(f, U8Max)


(***************************************************************************)
(* Size2d, Attribute and Map2d                                             *)
(***************************************************************************)

\* Size2d::get_area
Size2d_get_area(size) == size.width * size.height

\* Size2d::to_index_risky: the index of (x, y) without any range check.
Size2d_to_index_risky(size, x, y) == y * size.width + x

\* u32::saturating_sub
saturating_sub(a, b) == IF a >= b THEN a - b ELSE 0

\* Attribute::get reads values[index] (0-based) and panics outside the vector.
Attribute_in_range(attribute, index) == index >= 0 /\ index < Len(attribute.values)

Attribute_get(attribute, index) == attribute.values[index + 1]

\* Attribute::replace_all: the attribute owns the new buffer afterwards.
Attribute_replace_all(attribute, values) == [attribute EXCEPT !.values = values]

\* Map2d::get_attribute: attributes are addressed by their position.
Map2d_get_attribute(m, id) == m.attributes[id + 1]

\* Map2d::get_attribute_mut followed by Attribute::replace_all.
Map2d_replace_all(m, id, values) ==
    [m EXCEPT !.attributes[id + 1] = Attribute_replace_all(@, values)]

\* The names of the attributes of a map, in the order of their ids.
Map2d_attribute_names(m) == [i \in 1..Len(m.attributes) |-> m.attributes[i].name]

(***************************************************************************)
(* Generator1d and its serializable form Generator1dData                   *)
(***************************************************************************)

\* The number of distinct values of the stand-in noise field.
NoiseLevels == 5

\* Noise::generate1d: a deterministic function of (seed, scale, x), clamped
\* into [min_value, max_value].  The noise field itself is a fixed
\* pseudo-random function of the seed and of the scaled coordinate.
Noise_generate1d(noise, x) ==
    LET raw == (noise.seed * (x \div noise.scale + 1)) % NoiseLevels
    IN IF raw < noise.min_value THEN noise.min_value
       ELSE IF raw > noise.max_value THEN noise.max_value
       ELSE raw

\* Generator1d::generate: InputAsOutput returns `input as u8`.
Generator1d_generate(generator, input) ==
    IF generator.kind = "InputAsOutput" THEN input % (U8Max + 1)
    ELSE Noise_generate1d(generator.noise, input)

\* TryFrom<NoiseData> for Noise: fails when min_value > max_value.
Noise_try_from(data) ==
    IF data.min_value > data.max_value
    THEN [ok |-> FALSE, error |-> "NoiseError"]
    ELSE [ok |-> TRUE,
          value |-> [type |-> "Noise", seed |-> data.seed, scale |-> data.scale,
                     min_value |-> data.min_value, max_value |-> data.max_value]]

\* From<&Noise> for NoiseData
NoiseData_from(noise) ==
    [type |-> "NoiseData", seed |-> noise.seed, scale |-> noise.scale,
     min_value |-> noise.min_value, max_value |-> noise.max_value]

\* TryFrom<Generator1dData> for Generator1d
Generator1d_try_from(data) ==
    IF data.kind = "InputAsOutput"
    THEN [ok |-> TRUE, value |-> [type |-> "Generator1d", kind |-> "InputAsOutput"]]
    ELSE LET noise == Noise_try_from(data.noise)
         IN IF noise.ok
            THEN [ok |-> TRUE,
                  value |-> [type |-> "Generator1d", kind |-> "Noise",
                             noise |-> noise.value]]
            ELSE [ok |-> FALSE, error |-> noise.error]

\* From<&Generator1d> for Generator1dData
Generator1dData_from(generator) ==
    IF generator.kind = "InputAsOutput"
    THEN [type |-> "Generator1dData", kind |-> "InputAsOutput"]
    ELSE [type |-> "Generator1dData", kind |-> "Noise",
          noise |-> NoiseData_from(generator.noise)]

(***************************************************************************)
(* Distortion1d                                                            *)
(***************************************************************************)

\* The outcome of a computation that panicked.
Panic == [ok |-> FALSE]

\* The outcome of a computation that returned `values`.
Done(values) == [ok |-> TRUE, values |-> values]

\* Distortion1d::distort_row: pushes `shift` copies of the first value of
\* row y and then the first width - shift values of the row.
Distortion1d_distort_row(y, shift, attribute, values) ==
    LET start == Size2d_to_index_risky(attribute.size, 0, y)
        width == saturating_sub(attribute.size.width, shift)
    IN IF ~Attribute_in_range(attribute, start) THEN Panic
       ELSE IF \E x \in 0..(width - 1) : ~Attribute_in_range(attribute, start + x)
       THEN Panic
       ELSE Done(values
                 \o [x \in 1..shift |-> Attribute_get(attribute, start)]
                 \o [x \in 1..width |-> Attribute_get(attribute, start + x - 1)])

RECURSIVE DistortRows(_, _, _, _)
\* The loop of distort_map_along_x over the rows y .. height - 1.
DistortRows(step, m, y, values) ==
    IF y >= m.size.height THEN Done(values)
    ELSE LET shift == Generator1d_generate(step.generator, y)
             row == Distortion1d_distort_row(
                        y, shift, Map2d_get_attribute(m, step.attribute_id), values)
         IN IF row.ok THEN DistortRows(step, m, y + 1, row.values) ELSE Panic

\* Distortion1d::distort_map_along_x
Distortion1d_distort_map_along_x(step, m) == DistortRows(step, m, 0, <<>>)

RECURSIVE WriteColumn(_, _, _, _, _, _)
\* n iterations of a loop of distort_column: values[index] = the value read
\* at `from` (the start value when `from` stays in place), index += width.
WriteColumn(values, attribute, index, from, advance, n) ==
    IF n = 0 THEN [ok |-> TRUE, values |-> values, index |-> index]
    ELSE IF ~(index < Len(values)) \/ ~Attribute_in_range(attribute, from)
    THEN Panic
    ELSE WriteColumn([values EXCEPT ![index + 1] = Attribute_get(attribute, from)],
                     attribute, index + attribute.size.width,
                     from + advance, advance, n - 1)

\* Distortion1d::distort_column: writes the start value of column x into its
\* first `shift` cells and the first height - shift values of the column
\* into the cells below.
Distortion1d_distort_column(x, shift, attribute, values) ==
    LET start == Size2d_to_index_risky(attribute.size, x, 0)
        width == attribute.size.width
    IN IF ~Attribute_in_range(attribute, start) THEN Panic
       ELSE LET fill == WriteColumn(values, attribute, start, start, 0, shift)
                remaining_height == saturating_sub(attribute.size.height, shift)
            IN IF ~fill.ok THEN Panic
               ELSE LET copy == WriteColumn(fill.values, attribute, fill.index,
                                            start, width, remaining_height)
                    IN IF copy.ok THEN Done(copy.values) ELSE Panic

RECURSIVE DistortColumns(_, _, _, _)
\* The loop of distort_map_along_y over the columns x .. width - 1.
DistortColumns(step, m, x, values) ==
    IF x >= m.size.width THEN Done(values)
    ELSE LET shift == Generator1d_generate(step.generator, x)
             column == Distortion1d_distort_column(
                           x, shift, Map2d_get_attribute(m, step.attribute_id), values)
         IN IF column.ok THEN DistortColumns(step, m, x + 1, column.values) ELSE Panic

\* Distortion1d::distort_map_along_y: starts from vec![0; length].
Distortion1d_distort_map_along_y(step, m) ==
    DistortColumns(step, m, 0, [i \in 1..Size2d_get_area(m.size) |-> 0])

\* Distortion1d::distort_along_x: the new buffer replaces the attribute's
\* values; a panic leaves the map as it was.
Distortion1d_distort_along_x(step, m) ==
    LET values == Distortion1d_distort_map_along_x(step, m)
    IN IF values.ok
       THEN [ok |-> TRUE, map |-> Map2d_replace_all(m, step.attribute_id, values.values)]
       ELSE [ok |-> FALSE, map |-> m]

\* Distortion1d::distort_along_y
Distortion1d_distort_along_y(step, m) ==
    LET values == Distortion1d_distort_map_along_y(step, m)
    IN IF values.ok
       THEN [ok |-> TRUE, map |-> Map2d_replace_all(m, step.attribute_id, values.values)]
       ELSE [ok |-> FALSE, map |-> m]

(***************************************************************************)
(* ModifyWithAttribute                                                     *)
(***************************************************************************)

\* u8::max
u8_max(a, b) == IF a >= b THEN a ELSE b

\* calculate_value with a cast that wraps modulo 256 instead of saturating.
ModifyWithAttribute_calculate_value_wrapping(step, source, target) ==
    F32ToI32(F32Add(I32ToF32(target),
                    F32Mul(I32ToF32(u8_max(source, step.minimum) - step.minimum),
                           step.factor))) % (U8Max + 1)

\* ModifyWithAttribute::calculate_value:
\*   (target as f32 + (source.max(minimum) - minimum) as f32 * factor) as u8
ModifyWithAttribute_calculate_value(step, source, target) ==
    F32ToU8(F32Add(I32ToF32(target),
                   F32Mul(I32ToF32(u8_max(source, step.minimum) - step.minimum),
                          step.factor)))

\* ModifyWithAttribute::calculate_values: one value per cell of the map, from
\* the source and the target attribute as they are before the step.
ModifyWithAttribute_calculate_values(step, m) ==
    LET length == Size2d_get_area(m.size)
        source_attribute == Map2d_get_attribute(m, step.source_id)
        target_attribute == Map2d_get_attribute(m, step.target_id)
    IN IF \E index \in 0..(length - 1) :
              \/ ~Attribute_in_range(source_attribute, index)
              \/ ~Attribute_in_range(target_attribute, index)
       THEN Panic
       ELSE Done([i \in 1..length |->
                    ModifyWithAttribute_calculate_value(
                        step,
                        Attribute_get(source_attribute, i - 1),
                        Attribute_get(target_attribute, i - 1))])

\* run that replaces the values of the source instead of the target.
ModifyWithAttribute_run_replacing_source(step, m) ==
    LET values == ModifyWithAttribute_calculate_values(step, m)
    IN IF values.ok
       THEN [ok |-> TRUE, map |-> Map2d_replace_all(m, step.source_id, values.values)]
       ELSE [ok |-> FALSE, map |-> m]

\* ModifyWithAttribute::run
ModifyWithAttribute_run(step, m) ==
    LET values == ModifyWithAttribute_calculate_values(step, m)
    IN IF values.ok
       THEN [ok |-> TRUE, map |-> Map2d_replace_all(m, step.target_id, values.values)]
       ELSE [ok |-> FALSE, map |-> m]

(***************************************************************************)
(* Conversions between the serializable and the runtime form of a step     *)
(***************************************************************************)

\* get_attribute_id: the position of `name` in `attributes`, or the error
\* UnknownAttribute(name).
get_attribute_id(name, attributes) ==
    IF \E i \in 1..Len(attributes) : attributes[i] = name
    THEN [ok |-> TRUE,
          value |-> (CHOOSE i \in 1..Len(attributes) :
                        /\ attributes[i] = name
                        /\ \A j \in 1..(i - 1) : attributes[j] # name) - 1]
    ELSE [ok |-> FALSE, error |-> <<"UnknownAttribute", name>>]

\* Distortion1dData::try_convert
Distortion1dData_try_convert(data, attributes) ==
    LET id == get_attribute_id(data.attribute, attributes)
    IN IF ~id.ok THEN [ok |-> FALSE, error |-> id.error]
       ELSE LET generator == Generator1d_try_from(data.generator)
            IN IF ~generator.ok THEN [ok |-> FALSE, error |-> generator.error]
               ELSE [ok |-> TRUE,
                     value |-> [type |-> "Distortion1d", attribute_id |-> id.value,
                                generator |-> generator.value]]

\* convert that always names the first attribute of the list.
Distortion1d_convert_first_name(step, attributes) ==
    [type |-> "Distortion1dData",
     attribute |-> attributes[1],
     generator |-> Generator1dData_from(step.generator)]

\* Distortion1d::convert
Distortion1d_convert(step, attributes) ==
    [type |-> "Distortion1dData",
     attribute |-> attributes[step.attribute_id + 1],
     generator |-> Generator1dData_from(step.generator)]

\* The f32 literal 100.0
F32Hundred == I32ToF32(100)

\* try_convert that falls back to the first attribute for an unknown target.
ModifyWithAttributeData_try_convert_default_target(data, attributes) ==
    LET source_id == get_attribute_id(data.source, attributes)
        target_id == get_attribute_id(data.target, attributes)
    IN IF ~source_id.ok THEN [ok |-> FALSE, error |-> source_id.error]
       ELSE [ok |-> TRUE,
             value |-> [type |-> "ModifyWithAttribute",
                        source_id |-> source_id.value,
                        target_id |-> IF target_id.ok THEN target_id.value ELSE 0,
                        factor |-> F32Div(I32ToF32(data.percentage), I32ToF32(100)),
                        minimum |-> data.minimum]]

\* ModifyWithAttributeData::try_convert: factor = percentage as f32 / 100.0
ModifyWithAttributeData_try_convert(data, attributes) ==
    LET source_id == get_attribute_id(data.source, attributes)
    IN IF ~source_id.ok THEN [ok |-> FALSE, error |-> source_id.error]
       ELSE LET target_id == get_attribute_id(data.target, attributes)
            IN IF ~target_id.ok THEN [ok |-> FALSE, error |-> target_id.error]
               ELSE [ok |-> TRUE,
                     value |-> [type |-> "ModifyWithAttribute",
                                source_id |-> source_id.value,
                                target_id |-> target_id.value,
                                factor |-> F32Div(I32ToF32(data.percentage), F32Hundred),
                                minimum |-> data.minimum]]

\* ModifyWithAttribute::convert: percentage = (factor * 100.0) as i32
ModifyWithAttribute_convert(step, attributes) ==
    [type |-> "ModifyWithAttributeData",
     source |-> attributes[step.source_id + 1],
     target |-> attributes[step.target_id + 1],
     percentage |-> F32ToI32(F32Mul(step.factor, F32Hundred)),
     minimum |-> step.minimum]

(***************************************************************************)
(* Generator2d and its serializable form Generator2dData                   *)
(***************************************************************************)

\* u32::min
u32_min(a, b) == IF a <= b THEN a ELSE b

\* abs_diff of data/math/distance.rs: |a - b| without underflow.
abs_diff(a, b) == IF a >= b THEN a - b ELSE b - a

RECURSIVE SqrtFloor(_, _)
\* The largest r2 >= r with r2 * r2 <= n.
SqrtFloor(n, r) == IF (r + 1) * (r + 1) > n THEN r ELSE SqrtFloor(n, r + 1)

\* calculate_distance: the Euclidean distance of two points as an unsigned
\* integer.
calculate_distance(x0, y0, x1, y1) ==
    LET dx == abs_diff(x0, x1)
        dy == abs_diff(y0, y1)
    IN SqrtFloor(dx * dx + dy * dy, 0)

\* Size2d::saturating_to_index: x and y are clamped into the size before
\* the index is computed (the size is not degenerate).
Size2d_saturating_to_index(size, x, y) ==
    Size2d_to_index_risky(size, u32_min(x, size.width - 1), u32_min(y, size.height - 1))

\* Noise::generate2d: a deterministic function of (seed, scale, x, y),
\* clamped into [min_value, max_value].
Noise_generate2d(noise, x, y) ==
    LET raw == (noise.seed * (x \div noise.scale + 1) + y \div noise.scale) % NoiseLevels
    IN IF raw < noise.min_value THEN noise.min_value
       ELSE IF raw > noise.max_value THEN noise.max_value
       ELSE raw

\* Generator2d::generate with a saturating instead of a truncating cast of
\* the index.
Generator2d_generate_saturating_cast(generator, x, y) ==
    CASE generator.kind = "ApplyToX" -> Generator1d_generate(generator.generator, x)
      [] generator.kind = "ApplyToY" -> Generator1d_generate(generator.generator, y)
      [] generator.kind = "ApplyToDistance" ->
            Generator1d_generate(generator.generator,
                calculate_distance(generator.center_x, generator.center_y, x, y))
      [] generator.kind = "IndexGenerator" ->
            u32_min(Size2d_saturating_to_index(generator.size, x, y), U8Max)
      [] generator.kind = "Noise" -> Noise_generate2d(generator.noise, x, y)

\* Generator2d::generate
Generator2d_generate(generator, x, y) ==
    CASE generator.kind = "ApplyToX" -> Generator1d_generate(generator.generator, x)
      [] generator.kind = "ApplyToY" -> Generator1d_generate(generator.generator, y)
      [] generator.kind = "ApplyToDistance" ->
            Generator1d_generate(generator.generator,
                calculate_distance(generator.center_x, generator.center_y, x, y))
      [] generator.kind = "IndexGenerator" ->
            Size2d_saturating_to_index(generator.size, x, y) % (U8Max + 1)
      [] generator.kind = "Noise" -> Noise_generate2d(generator.noise, x, y)

\* The result of a conversion that failed with `error`.
Err(error) == [ok |-> FALSE, error |-> error]

\* Ok(ApplyToX(..)) or Ok(ApplyToY(..)) of a converted Generator1d, or its
\* error wrapped by From<Generator1dError> for Generator2dError.
Generator2d_apply_to(kind, converted) ==
    IF converted.ok
    THEN [ok |-> TRUE,
          value |-> [type |-> "Generator2d", kind |-> kind,
                     generator |-> converted.value]]
    ELSE Err(<<"Generator1d", converted.error>>)

\* TryFrom<Generator2dData> for Generator2d
Generator2d_try_from(data) ==
    CASE data.kind = "ApplyToX" ->
            Generator2d_apply_to("ApplyToX", Generator1d_try_from(data.generator))
      [] data.kind = "ApplyToY" ->
            Generator2d_apply_to("ApplyToY", Generator1d_try_from(data.generator))
      [] data.kind = "ApplyToDistance" ->
            LET generator == Generator1d_try_from(data.generator)
            IN IF generator.ok
               THEN [ok |-> TRUE,
                     value |-> [type |-> "Generator2d", kind |-> "ApplyToDistance",
                                generator |-> generator.value,
                                center_x |-> data.center_x,
                                center_y |-> data.center_y]]
               ELSE Err(<<"Generator1d", generator.error>>)
      [] data.kind = "IndexGenerator" ->
            [ok |-> TRUE,
             value |-> [type |-> "Generator2d", kind |-> "IndexGenerator",
                        size |-> data.size]]
      [] data.kind = "Noise" ->
            LET noise == Noise_try_from(data.noise)
            IN IF noise.ok
               THEN [ok |-> TRUE,
                     value |-> [type |-> "Generator2d", kind |-> "Noise",
                                noise |-> noise.value]]
               ELSE Err(<<"Noise", noise.error>>)

\* From<&Generator2d> for Generator2dData that mixes up the two coordinates
\* of the centre.
Generator2dData_from_swapped_centre(generator) ==
    CASE generator.kind = "ApplyToX" ->
            [type |-> "Generator2dData", kind |-> "ApplyToX",
             generator |-> Generator1dData_from(generator.generator)]
      [] generator.kind = "ApplyToY" ->
            [type |-> "Generator2dData", kind |-> "ApplyToY",
             generator |-> Generator1dData_from(generator.generator)]
      [] generator.kind = "ApplyToDistance" ->
            [type |-> "Generator2dData", kind |-> "ApplyToDistance",
             generator |-> Generator1dData_from(generator.generator),
             center_x |-> generator.center_y,
             center_y |-> generator.center_x]
      [] generator.kind = "IndexGenerator" ->
            [type |-> "Generator2dData", kind |-> "IndexGenerator",
             size |-> generator.size]
      [] generator.kind = "Noise" ->
            [type |-> "Generator2dData", kind |-> "Noise",
             noise |-> NoiseData_from(generator.noise)]

\* From<&Generator2d> for Generator2dData
Generator2dData_from(generator) ==
    CASE generator.kind = "ApplyToX" ->
            [type |-> "Generator2dData", kind |-> "ApplyToX",
             generator |-> Generator1dData_from(generator.generator)]
      [] generator.kind = "ApplyToY" ->
            [type |-> "Generator2dData", kind |-> "ApplyToY",
             generator |-> Generator1dData_from(generator.generator)]
      [] generator.kind = "ApplyToDistance" ->
            [type |-> "Generator2dData", kind |-> "ApplyToDistance",
             generator |-> Generator1dData_from(generator.generator),
             center_x |-> generator.center_x,
             center_y |-> generator.center_y]
      [] generator.kind = "IndexGenerator" ->
            [type |-> "Generator2dData", kind |-> "IndexGenerator",
             size |-> generator.size]
      [] generator.kind = "Noise" ->
            [type |-> "Generator2dData", kind |-> "Noise",
             noise |-> NoiseData_from(generator.noise)]

(***************************************************************************)
(* Interpolation and Gradient                                              *)
(***************************************************************************)

\* The f32 values a division by zero produces: m = -1 stands for an infinity
\* of sign s, m = -2 for NaN.
F32NaN == [s |-> 1, m |-> 0 - 2, e |-> 0]

F32Inf(s) == [s |-> s, m |-> 0 - 1, e |-> 0]

F32IsNaN(f) == f.m = 0 - 2

F32IsInf(f) == f.m = 0 - 1

\* `u as f32` for a u32 (below 2^31).
U32ToF32(u) == F32Round(1, u, 0)

\* a / b on f32 for finite a and b: x / 0.0 is an infinity and 0.0 / 0.0 is
\* NaN.
F32DivByAny(a, b) ==
    IF b.m # 0 THEN F32Div(a, b)
    ELSE IF a.m = 0 THEN F32NaN
    ELSE F32Inf(a.s * b.s)

\* a * b on f32 for a finite a.
F32MulByAny(a, b) ==
    IF F32IsNaN(b) THEN F32NaN
    ELSE IF F32IsInf(b) THEN (IF a.m = 0 THEN F32NaN ELSE F32Inf(a.s * b.s))
    ELSE F32Mul(a, b)

\* a + b on f32 for a finite a.
F32AddAny(a, b) == IF F32IsNaN(b) \/ F32IsInf(b) THEN b ELSE F32Add(a, b)

\* a - b on f32 for finite a and b.
F32Sub(a, b) == F32Add(a, [b EXCEPT !.s = 0 - b.s])

\* `f as u8`, where NaN gives 0 and the infinities saturate.
F32AnyToU8(f) ==
    IF F32IsNaN(f) THEN 0
    ELSE IF F32IsInf(f) THEN (IF f.s > 0 THEN U8Max ELSE 0)
    ELSE F32ToU8(f)

\* TRUE iff f >= 1.0
F32AtLeastOne(f) ==
    \/ F32IsInf(f) /\ f.s > 0
    \/ f.m > 0 /\ f.s > 0 /\ f.e >= 1 - MantissaBits

\* TRUE iff f <= 0.0
F32AtMostZero(f) ==
    \/ f.m = 0
    \/ f.s < 0 /\ ~F32IsNaN(f)

\* What lerp does with a factor outside of [0, 1]: the source of lerp is
\* not given and the spec leaves the rule open.
LerpPolicies == {"extrapolate", "clamp"}

\* lerp(start, end, factor) on bytes: start + (end - start) * factor in f32,
\* cast to a byte.  Under the policy "clamp" a factor outside of [0, 1] gives
\* the nearer end.
lerp(start, end, factor, policy) ==
    IF policy = "clamp" /\ F32AtLeastOne(factor) THEN end
    ELSE IF policy = "clamp" /\ F32AtMostZero(factor) THEN start
    ELSE LET first == I32ToF32(start)
             diff  == F32Sub(I32ToF32(end), first)
         IN F32AnyToU8(F32AddAny(first, F32MulByAny(diff, factor)))

\* Gradient::generate with the operands of the division exchanged.
Gradient_generate_inverted_factor(gradient, input, policy) ==
    IF input <= gradient.start THEN gradient.value_start
    ELSE LET distance == U32ToF32(input - gradient.start)
             factor == F32DivByAny(U32ToF32(gradient.length), distance)
         IN lerp(gradient.value_start, gradient.value_end, factor, policy)

\* Gradient::generate
Gradient_generate(gradient, input, policy) ==
    IF input <= gradient.start THEN gradient.value_start
    ELSE LET distance == U32ToF32(input - gradient.start)
             factor == F32DivByAny(distance, U32ToF32(gradient.length))
         IN lerp(gradient.value_start, gradient.value_end, factor, policy)

\* Gradient::generate_absolute with the distance of generate: inputs before
\* the start have the distance 0.
Gradient_generate_absolute_one_sided(gradient, input, policy) ==
    LET distance == U32ToF32(saturating_sub(input, gradient.start))
        factor == F32DivByAny(distance, U32ToF32(gradient.length))
    IN lerp(gradient.value_start, gradient.value_end, factor, policy)

\* Gradient::generate_absolute
Gradient_generate_absolute(gradient, input, policy) ==
    LET distance == U32ToF32(abs_diff(gradient.start, input))
        factor == F32DivByAny(distance, U32ToF32(gradient.length))
    IN lerp(gradient.value_start, gradient.value_end, factor, policy)

(***************************************************************************)
(* Selector<u8>                                                            *)
(***************************************************************************)

\* VectorInterpolation::interpolate: the points are sorted by their keys;
\* an input between two keys interpolates their values, an input outside of
\* the keys gets the value of the nearest end.
VectorInterpolation_interpolate(points, key) ==
    LET n == Len(points)
    IN IF key <= points[1][1] THEN points[1][2]
       ELSE IF key >= points[n][1] THEN points[n][2]
       ELSE LET i == CHOOSE j \in 1..(n - 1) :
                         points[j][1] <= key /\ key < points[j + 1][1]
                factor == F32Div(I32ToF32(key - points[i][1]),
                                 I32ToF32(points[i + 1][1] - points[i][1]))
            IN lerp(points[i][2], points[i + 1][2], factor, "extrapolate")

\* HashMap::get(&key).copied().unwrap_or(default)
HashMap_get_or(lookup, key, default) ==
    IF key \in DOMAIN lookup THEN lookup[key] ELSE default

\* Selector::get whose lookup falls back to the entry of the nearest smaller
\* key before it falls back to the default.
Selector_get_nearest_key(selector, key) ==
    CASE selector.kind = "Const" -> selector.value
      [] selector.kind = "InterpolatePair" ->
            lerp(selector.first, selector.second,
                 F32Div(I32ToF32(key), I32ToF32(U8Max)), "extrapolate")
      [] selector.kind = "InterpolateVector" ->
            VectorInterpolation_interpolate(selector.points, key)
      [] selector.kind = "Lookup" ->
            LET below == {k \in DOMAIN selector.lookup : k <= key}
            IN IF below = {} THEN selector.default
               ELSE selector.lookup[CHOOSE k \in below : \A l \in below : l <= k]

\* Selector::get.  The factor of InterpolatePair lies in [0, 1], where both
\* rules of lerp agree.
Selector_get(selector, key) ==
    CASE selector.kind = "Const" -> selector.value
      [] selector.kind = "InterpolatePair" ->
            lerp(selector.first, selector.second,
                 F32Div(I32ToF32(key), I32ToF32(U8Max)), "extrapolate")
      [] selector.kind = "InterpolateVector" ->
            VectorInterpolation_interpolate(selector.points, key)
      [] selector.kind = "Lookup" ->
            HashMap_get_or(selector.lookup, key, selector.default)

(***************************************************************************)
(* GliumRenderer                                                           *)
(***************************************************************************)

\* target: None.  A held frame Some(frame) records its number, the colour
\* it was cleared with and the vertex lists drawn on it.
NoTarget == [some |-> FALSE, number |-> 0, clear |-> "none", draws |-> <<>>]

\* self.display.draw() followed by clear_color: the next frame.
Display_draw(self, color) ==
    [some |-> TRUE, number |-> self.frames + 1, clear |-> color, draws |-> <<>>]

\* GliumRenderer::new: no frame is held and every builder is empty.
\* `frames` is the number of frames the display has handed out.
GliumRenderer_new(textures) ==
    [target |-> NoTarget,
     frames |-> 0,
     color_builder |-> <<>>,
     texture_data |-> [id \in 1..textures |-> <<>>]]

\* ColorBuilder::render_triangle.. push vertices; `vertex` stands for the
\* vertices of one rendered shape, marked with the number of the frame
\* started last.
ColorBuilder_render(self, vertex) ==
    [self EXCEPT !.color_builder = Append(@, vertex)]

\* get_texture_renderer(id) indexes texture_data and panics for an unknown
\* id; the TextureBuilder pushes the vertices of one rendered shape.
TextureBuilder_render(self, id, vertex) ==
    IF id >= Len(self.texture_data) THEN Panic
    ELSE [ok |-> TRUE,
          self |-> [self EXCEPT !.texture_data[id + 1] = Append(@, vertex)]]

\* GliumRenderer::start that forgets the builders of the textures.
GliumRenderer_start_keeping_textures(self, color) ==
    [self EXCEPT !.target = Display_draw(self, color),
                 !.frames = @ + 1,
                 !.color_builder = <<>>]

\* GliumRenderer::start: a new frame is cleared with the colour and becomes
\* the target (a frame that is still held is dropped without being
\* finished); the vertices of all builders are cleared.
GliumRenderer_start(self, color) ==
    [self EXCEPT !.target = Display_draw(self, color),
                 !.frames = @ + 1,
                 !.color_builder = <<>>,
                 !.texture_data = [id \in 1..Len(self.texture_data) |-> <<>>]]

\* GliumRenderer::render_colored_triangles: unwraps the target and draws the
\* vertices of the colour builder on it.
GliumRenderer_render_colored_triangles(self) ==
    IF ~self.target.some THEN Panic
    ELSE [ok |-> TRUE,
          self |-> [self EXCEPT !.target.draws = Append(@, self.color_builder)]]

\* GliumRenderer::render_textured_triangles: unwraps the target and draws
\* the vertices of the builder of every texture on it.
GliumRenderer_render_textured_triangles(self) ==
    IF ~self.target.some THEN Panic
    ELSE [ok |-> TRUE,
          self |-> [self EXCEPT !.target.draws = @ \o self.texture_data]]

\* GliumRenderer::finish: draws the coloured and the textured triangles,
\* then takes the target and finishes the frame.
GliumRenderer_finish(self) ==
    LET colored == GliumRenderer_render_colored_triangles(self)
    IN IF ~colored.ok THEN Panic
       ELSE LET textured == GliumRenderer_render_textured_triangles(colored.self)
            IN IF ~textured.ok THEN Panic
               ELSE [ok |-> TRUE,
                     self |-> [textured.self EXCEPT !.target = NoTarget],
                     frame |-> textured.self.target]

(***************************************************************************)
(* Bounds and inputs of the model                                          *)
(***************************************************************************)

\* Largest width of a map.
MaxWidth == 3

\* Largest height of a map.
MaxHeight == 3

\* Largest number of attributes of a map and of names in a name list.
MaxAttributes == 2

\* Largest number of steps run on one map.
MaxRuns == 1

\* Largest seed of a noise generator.
MaxSeed == 2

\* Largest percentage (in absolute value) of the dense range of SpecCalc.
MaxPercentage == 60

NameOrder == <<"elevation", "rainfall", "temperature", "vegetation", "wind", "soil">>

\* The names a step's data may refer to: one more than a map can hold.
Names == {NameOrder[i] : i \in 1..(MaxAttributes + 1)}

\* The lists of attribute names: no name occurs twice, as in a map.
NameLists ==
    UNION {{names \in [1..n -> Names] :
               \A i, j \in 1..n : i # j => names[i] # names[j]} : n \in 0..MaxAttributes}

\* (min_value, max_value) of the noise data; the last pair is invalid.
NoiseRanges == {<<0, U8Max>>, <<1, 1>>, <<4, 4>>, <<3, 1>>}

NoiseDatas ==
    {[type |-> "NoiseData", seed |-> seed, scale |-> scale,
      min_value |-> range[1], max_value |-> range[2]] :
        seed \in 0..MaxSeed, scale \in {1, 2}, range \in NoiseRanges}

Generator1dDatas ==
    {[type |-> "Generator1dData", kind |-> "InputAsOutput"]}
    \cup {[type |-> "Generator1dData", kind |-> "Noise", noise |-> noise] :
             noise \in NoiseDatas}

Distortion1dDatas ==
    {[type |-> "Distortion1dData", attribute |-> name, generator |-> generator] :
        name \in Names, generator \in Generator1dDatas}

\* The data of the distortions that run in Spec: the identity generator, and
\* noise with min_value = max_value, whose output is that value whatever the
\* noise field is.
RunDistortion1dDatas ==
    {data \in Distortion1dDatas :
        \/ data.generator.kind = "InputAsOutput"
        \/ /\ data.generator.noise.min_value = data.generator.noise.max_value
           /\ data.generator.noise.seed = 0
           /\ data.generator.noise.scale = 1}

\* Percentages of the steps of Spec; 53 is the smallest percentage whose
\* factor 0.53 does not give 53 back when multiplied with 100.0.
Percentages == {-150, -53, 0, 53, 250}

Minimums == {0, 5}

ModifyDatas(percentages, minimums) ==
    {[type |-> "ModifyWithAttributeData", source |-> source, target |-> target,
      percentage |-> percentage, minimum |-> minimum] :
        source \in Names, target \in Names,
        percentage \in percentages, minimum \in minimums}

\* Largest coordinate of the centre of an ApplyToDistance.
MaxCenter == 2

\* Largest of the small coordinates a generator is asked for.
MaxCoord == 3

\* Coordinates far away from the origin, up to the largest integer of the
\* model.
FarCoords == {13, 19, 20, 1000, I32Max}

\* The sizes of the index generators: those of the doc tests, and one with
\* more than 256 cells.
IndexSizes ==
    {[width |-> 2, height |-> 3], [width |-> 3, height |-> 5],
     [width |-> 20, height |-> 14]}

Generator2dDatas ==
    {[type |-> "Generator2dData", kind |-> kind, generator |-> generator] :
        kind \in {"ApplyToX", "ApplyToY"}, generator \in Generator1dDatas}
    \cup {[type |-> "Generator2dData", kind |-> "ApplyToDistance",
           generator |-> generator, center_x |-> x, center_y |-> y] :
             generator \in Generator1dDatas, x \in 0..MaxCenter, y \in 0..MaxCenter}
    \cup {[type |-> "Generator2dData", kind |-> "IndexGenerator", size |-> size] :
             size \in IndexSizes}
    \cup {[type |-> "Generator2dData", kind |-> "Noise", noise |-> noise] :
             noise \in NoiseDatas}

\* The coordinates a generator is asked for.
GenerateCoords(generator) ==
    IF generator.kind = "IndexGenerator"
    THEN (0..MaxCoord) \cup FarCoords
    ELSE 0..MaxCoord

\* Largest length of a gradient.
MaxLength == 3

\* Largest of the small inputs of a gradient.
MaxInput == 6

\* (value_start, value_end) of the gradients: rising, falling and flat.
GradientValues == {<<0, U8Max>>, <<1, 100>>, <<100, 1>>, <<7, 7>>}

\* A start beyond 2^24, where not every u32 is an f32.
FarStart == 16777219

\* The starts of the gradients.
GradientStarts == {0, 3, FarStart}

Gradients ==
    {[type |-> "Gradient", value_start |-> values[1], value_end |-> values[2],
      start |-> start, length |-> length] :
        values \in GradientValues, start \in GradientStarts, length \in 0..MaxLength}

\* The inputs of a gradient: the inputs around its start, and the largest
\* integer of the model.
GradientInputs(gradient) ==
    IF gradient.start = FarStart
    THEN ((FarStart - 2)..(FarStart + 2)) \cup {I32Max}
    ELSE (0..MaxInput) \cup {I32Max}

\* The lookup of the doc test of Selector::Lookup.
DocLookup == (1 :> 25) @@ (3 :> 100)

\* The selectors: those of the doc tests, and lookups without entries, with
\* entries at both ends of the bytes and with neighbouring keys.
Selectors ==
    {[type |-> "Selector", kind |-> "Const", value |-> value] :
        value \in {0, 99, U8Max}}
    \cup {[type |-> "Selector", kind |-> "InterpolatePair",
           first |-> 100, second |-> 200],
          [type |-> "Selector", kind |-> "InterpolatePair",
           first |-> U8Max, second |-> 0]}
    \cup {[type |-> "Selector", kind |-> "InterpolateVector",
           points |-> <<<<100, 150>>, <<150, 200>>, <<200, 100>>>>]}
    \cup {[type |-> "Selector", kind |-> "Lookup", lookup |-> lookup,
           default |-> default] :
             lookup \in {DocLookup, <<>>, (0 :> 7) @@ (U8Max :> 0),
                         (100 :> 1) @@ (101 :> 2) @@ (102 :> 100)},
             default \in {1, U8Max}}

\* All inputs of a selector.
Bytes == 0..U8Max

\* Largest number of textures of a renderer.
MaxTextures == 1

\* Largest number of frames a renderer starts.
MaxFrames == 2

\* Largest number of shapes rendered into one builder.
MaxShapes == 2

\* The colours a frame is cleared with.
Colors == {"black", "white"}

(***************************************************************************)
(* State                                                                   *)
(***************************************************************************)

VARIABLES
    map,       \* the Map2d: [size, attributes], an attribute is [name, size, values]
    pre,       \* the map as it was before the last operation
    op,        \* the last operation
    input,     \* the data and the runtime step of the last step that ran
    panicked,  \* TRUE once an operation panicked
    conv,      \* the conversions done on one step: data -> step -> data -> step
    runs,      \* the number of steps that ran
    call,      \* the latest call of a generator, a gradient or a selector
    renderer   \* the GliumRenderer

vars == <<map, pre, op, input, panicked, conv, runs, call, renderer>>

NoInput == [type |-> "None"]

NoConv == [stage |-> "none", type |-> "None", names |-> <<>>, data |-> NoInput,
           result |-> [ok |-> FALSE], back |-> NoInput, again |-> [ok |-> FALSE]]

\* The value of cell `index` (0-based) of attribute `id` of a new map: the
\* first attribute holds 1, 2, 3, ... as in the tests of distortion1d.rs.
InitialValue(id, index) == (index + 1 + 100 * id) % (U8Max + 1)

\* The values of `count` new attributes of `cells` cells each.
InitialValues(count, cells) ==
    [i \in 1..count |-> [c \in 1..cells |-> InitialValue(i - 1, c - 1)]]

\* Map2d::new followed by one create_attribute_from per sequence of values.
NewMap(width, height, values) ==
    LET size == [width |-> width, height |-> height]
    IN [size |-> size,
        attributes |->
            [i \in 1..Len(values) |->
                [name |-> NameOrder[i], size |-> size, values |-> values[i]]]]

\* No generator, gradient or selector was called yet.
NoCall == [fn |-> "none", self |-> NoInput, input |-> <<>>,
           result |-> NoInput, before |-> NoInput]

\* What the model remembers of the calls of a renderer: the latest and the
\* previous call of start or finish, the number of frames finished, the
\* number of draw calls, and the frame finished last.
NoHistory == [last |-> "new", previous |-> "new", finished |-> 0,
              draw_calls |-> 0, presented |-> NoTarget]

\* No renderer was created.
NoRenderer == [self |-> GliumRenderer_new(0), textures |-> 0 - 1, history |-> NoHistory]

\* No step ran and no conversion was made.
InitSteps ==
    /\ pre = map
    /\ op = "new"
    /\ input = NoInput
    /\ panicked = FALSE
    /\ conv = NoConv
    /\ runs = 0

InitRest ==
    /\ InitSteps
    /\ call = NoCall
    /\ renderer = NoRenderer

Init ==
    /\ \E width \in 1..MaxWidth, height \in 1..MaxHeight, count \in 1..MaxAttributes :
          map = NewMap(width, height, InitialValues(count, width * height))
    /\ InitRest

(***************************************************************************)
(* Actions                                                                 *)
(***************************************************************************)

\* data.try_convert(names) for either kind of step data.
TryConvertData(data, names) ==
    IF data.type = "Distortion1dData"
    THEN Distortion1dData_try_convert(data, names)
    ELSE ModifyWithAttributeData_try_convert(data, names)

\* step.convert(names) for either kind of step.
ConvertStep(step, names) ==
    IF step.type = "Distortion1d"
    THEN Distortion1d_convert(step, names)
    ELSE ModifyWithAttribute_convert(step, names)

\* A step's data is validated against a list of attribute names.  The round
\* trip of one step is followed on a map no step has run on yet.
TryConvert(data, names) ==
    /\ ~panicked
    /\ runs = 0
    /\ conv.stage = "none"
    /\ conv' = [NoConv EXCEPT !.stage = "data_to_step", !.type = data.type,
                              !.names = names, !.data = data,
                              !.result = TryConvertData(data, names)]
    /\ op' = "try_convert"
    /\ pre' = map
    /\ UNCHANGED <<map, input, panicked, runs, call, renderer>>

\* The step a conversion produced is converted back to data.
Convert ==
    /\ ~panicked
    /\ conv.stage = "data_to_step"
    /\ conv.result.ok
    /\ conv' = [conv EXCEPT !.stage = "step_to_data",
                            !.back = ConvertStep(conv.result.value, conv.names)]
    /\ op' = "convert"
    /\ pre' = map
    /\ UNCHANGED <<map, input, panicked, runs, call, renderer>>

\* The data a step was converted to is validated again.
TryConvertAgain ==
    /\ ~panicked
    /\ conv.stage = "step_to_data"
    /\ conv' = [conv EXCEPT !.stage = "back_to_step",
                            !.again = TryConvertData(conv.back, conv.names)]
    /\ op' = "try_convert"
    /\ pre' = map
    /\ UNCHANGED <<map, input, panicked, runs, call, renderer>>

\* What every step that runs on the map records.
Ran(name, data, step, outcome) ==
    /\ map' = outcome.map
    /\ panicked' = ~outcome.ok
    /\ pre' = map
    /\ op' = name
    /\ input' = [type |-> "Step", data |-> data, step |-> step]
    /\ conv' = NoConv
    /\ runs' = runs + 1
    /\ UNCHANGED <<call, renderer>>

\* A validated Distortion1d distorts its attribute along the x-axis.
DistortAlongX(data) ==
    /\ ~panicked
    /\ runs < MaxRuns
    /\ conv.stage = "none"
    /\ LET step == Distortion1dData_try_convert(data, Map2d_attribute_names(map))
       IN /\ step.ok
          /\ Ran("distort_along_x", data, step.value,
                 Distortion1d_distort_along_x(step.value, map))

\* A validated Distortion1d distorts its attribute along the y-axis.
DistortAlongY(data) ==
    /\ ~panicked
    /\ runs < MaxRuns
    /\ conv.stage = "none"
    /\ LET step == Distortion1dData_try_convert(data, Map2d_attribute_names(map))
       IN /\ step.ok
          /\ Ran("distort_along_y", data, step.value,
                 Distortion1d_distort_along_y(step.value, map))

\* A validated ModifyWithAttribute runs.
Run(data) ==
    /\ ~panicked
    /\ runs < MaxRuns
    /\ conv.stage = "none"
    /\ LET step == ModifyWithAttributeData_try_convert(data, Map2d_attribute_names(map))
       IN /\ step.ok
          /\ Ran("run", data, step.value, ModifyWithAttribute_run(step.value, map))

\* The steps of a generation pipeline run on maps of every size.
Next ==
    \/ \E data \in RunDistortion1dDatas : DistortAlongX(data)
    \/ \E data \in RunDistortion1dDatas : DistortAlongY(data)
    \/ \E data \in ModifyDatas(Percentages, Minimums) : Run(data)

Spec == Init /\ [][Next]_vars

\* The conversions of step data, for every list of attribute names.
InitConv ==
    /\ map = NewMap(MaxWidth, MaxHeight,
                   InitialValues(MaxAttributes, MaxWidth * MaxHeight))
    /\ InitRest

NextConv ==
    \/ \E data \in Distortion1dDatas \cup ModifyDatas(Percentages, Minimums),
          names \in NameLists : TryConvert(data, names)
    \/ Convert
    \/ TryConvertAgain

SpecConv == InitConv /\ [][NextConv]_vars

\* Byte values of the cells of the maps of SpecCalc.
ByteSamples == {0, 1, 3, 100, 254, 255}

CalcMinimums == {0, 2, 100}

\* ModifyWithAttribute::run for a dense range of percentages, on maps of two
\* cells: the first attribute holds `source` and its complement, the second
\* `target` and its complement.
InitCalc ==
    /\ \E source \in ByteSamples, target \in ByteSamples :
          map = NewMap(2, 1, <<<<source, U8Max - source>>,
                                 <<target, U8Max - target>>>>)
    /\ InitRest

NextCalc ==
    \E data \in ModifyDatas((-MaxPercentage)..MaxPercentage, CalcMinimums) :
        runs = 0 /\ Run(data)

SpecCalc == InitCalc /\ [][NextCalc]_vars

(***************************************************************************)
(* Generator2d: conversions and generate                                   *)
(***************************************************************************)

\* What a call leaves behind for the call that follows it.
Before == [fn |-> call.fn, self |-> call.self, input |-> call.input,
           result |-> call.result]

\* let generator: Generator2d = data.try_into()
Generator2dTryFrom(data) ==
    /\ call.fn = "none"
    /\ call' = [fn |-> "Generator2d::try_from", self |-> data, input |-> <<>>,
                result |-> Generator2d_try_from(data), before |-> NoInput]
    /\ UNCHANGED <<map, pre, op, input, panicked, conv, runs, renderer>>

\* let result: Generator2dData = (&generator).into()
Generator2dDataFrom ==
    /\ call.fn = "Generator2d::try_from"
    /\ call.result.ok
    /\ call' = [fn |-> "Generator2dData::from", self |-> call.result.value,
                input |-> <<>>,
                result |-> Generator2dData_from(call.result.value),
                before |-> Before]
    /\ UNCHANGED <<map, pre, op, input, panicked, conv, runs, renderer>>

\* generator.generate(x, y)
Generator2dGenerate(x, y) ==
    /\ call.fn = "Generator2d::try_from"
    /\ call.result.ok
    /\ x \in GenerateCoords(call.result.value)
    /\ y \in GenerateCoords(call.result.value)
    /\ call' = [fn |-> "Generator2d::generate", self |-> call.result.value,
                input |-> <<x, y>>,
                result |-> [value |-> Generator2d_generate(call.result.value, x, y)],
                before |-> NoInput]
    /\ UNCHANGED <<map, pre, op, input, panicked, conv, runs, renderer>>

\* The map of the specifications that run no step on it.
InitIdleMap ==
    /\ map = NewMap(1, 1, InitialValues(1, 1))
    /\ InitSteps

InitGenerator2d ==
    /\ InitIdleMap
    /\ call = NoCall
    /\ renderer = NoRenderer

NextGenerator2d ==
    \/ \E data \in Generator2dDatas : Generator2dTryFrom(data)
    \/ Generator2dDataFrom
    \/ \E x, y \in (0..MaxCoord) \cup FarCoords : Generator2dGenerate(x, y)

SpecGenerator2d == InitGenerator2d /\ [][NextGenerator2d]_vars

(***************************************************************************)
(* Gradient                                                                *)
(***************************************************************************)

\* The first call of a gradient picks the gradient; the calls that follow
\* are made on the same gradient, with the same lerp.
GradientCall(fn, gradient, policy, position, value) ==
    /\ \/ call.fn = "none"
       \/ /\ call.fn \in {"Gradient::generate", "Gradient::generate_absolute"}
          /\ call.self = gradient
          /\ call.lerp = policy
    /\ call' = [fn |-> fn, self |-> gradient, input |-> <<position>>,
                result |-> [value |-> value], before |-> Before, lerp |-> policy]
    /\ UNCHANGED <<map, pre, op, input, panicked, conv, runs, renderer>>

\* gradient.generate(input)
GradientGenerate(gradient, policy, position) ==
    GradientCall("Gradient::generate", gradient, policy, position,
                 Gradient_generate(gradient, position, policy))

\* gradient.generate_absolute(input)
GradientGenerateAbsolute(gradient, policy, position) ==
    GradientCall("Gradient::generate_absolute", gradient, policy, position,
                 Gradient_generate_absolute(gradient, position, policy))

InitGradient ==
    /\ InitIdleMap
    /\ call = NoCall
    /\ renderer = NoRenderer

\* The gradients the next call can be made on.
CalledGradients == IF call.fn = "none" THEN Gradients ELSE {call.self}

\* The rules lerp can follow in the next call.
CalledPolicies == IF call.fn = "none" THEN LerpPolicies ELSE {call.lerp}

NextGradient ==
    \/ \E gradient \in CalledGradients, policy \in CalledPolicies :
          \E position \in GradientInputs(gradient) :
              GradientGenerate(gradient, policy, position)
    \/ \E gradient \in CalledGradients, policy \in CalledPolicies :
          \E position \in GradientInputs(gradient) :
              GradientGenerateAbsolute(gradient, policy, position)

SpecGradient == InitGradient /\ [][NextGradient]_vars

(***************************************************************************)
(* Selector                                                                *)
(***************************************************************************)

\* selector.get(key)
SelectorGet(selector, key) ==
    /\ call.fn = "none"
    /\ call' = [fn |-> "Selector::get", self |-> selector, input |-> <<key>>,
                result |-> [value |-> Selector_get(selector, key)],
                before |-> NoInput]
    /\ UNCHANGED <<map, pre, op, input, panicked, conv, runs, renderer>>

InitSelector ==
    /\ InitIdleMap
    /\ call = NoCall
    /\ renderer = NoRenderer

NextSelector ==
    \E selector \in Selectors, key \in Bytes : SelectorGet(selector, key)

SpecSelector == InitSelector /\ [][NextSelector]_vars

(***************************************************************************)
(* GliumRenderer                                                           *)
(***************************************************************************)

\* A call of the renderer leaves the map and the generators alone.
RendererCalled(name) ==
    /\ op' = name
    /\ UNCHANGED <<map, pre, input, conv, runs, call>>

\* renderer.start(color)
Start(color) ==
    /\ ~panicked
    /\ renderer.self.frames < MaxFrames
    /\ renderer' = [renderer EXCEPT
                       !.self = GliumRenderer_start(renderer.self, color),
                       !.history.previous = renderer.history.last,
                       !.history.last = "start"]
    /\ panicked' = FALSE
    /\ RendererCalled("start")

\* renderer.finish()
Finish ==
    /\ ~panicked
    /\ LET outcome == GliumRenderer_finish(renderer.self)
           history == [renderer.history EXCEPT !.previous = renderer.history.last,
                                               !.last = "finish"]
       IN IF outcome.ok
          THEN /\ renderer' = [renderer EXCEPT
                                  !.self = outcome.self,
                                  !.history = [history EXCEPT
                                      !.finished = @ + 1,
                                      !.draw_calls = @ + Len(outcome.frame.draws),
                                      !.presented = outcome.frame]]
               /\ panicked' = FALSE
          ELSE /\ renderer' = [renderer EXCEPT !.history = history]
               /\ panicked' = TRUE
    /\ RendererCalled("finish")

\* renderer.get_color_renderer().render_triangle(..): the vertices carry the
\* number of the frame they were rendered in.
RenderTriangle ==
    /\ ~panicked
    /\ Len(renderer.self.color_builder) < MaxShapes
    /\ renderer' = [renderer EXCEPT
                       !.self = ColorBuilder_render(@, renderer.self.frames)]
    /\ panicked' = FALSE
    /\ RendererCalled("render_triangle")

\* renderer.get_texture_renderer(id).render_rectangle(..)
RenderRectangle(id) ==
    /\ ~panicked
    /\ id < Len(renderer.self.texture_data) =>
           Len(renderer.self.texture_data[id + 1]) < MaxShapes
    /\ LET outcome == TextureBuilder_render(renderer.self, id, renderer.self.frames)
       IN IF outcome.ok
          THEN renderer' = [renderer EXCEPT !.self = outcome.self] /\ panicked' = FALSE
          ELSE renderer' = renderer /\ panicked' = TRUE
    /\ RendererCalled("render_rectangle")

\* A renderer with up to MaxTextures textures was created.
InitRenderer ==
    /\ InitIdleMap
    /\ call = NoCall
    /\ \E textures \in 0..MaxTextures :
          renderer = [self |-> GliumRenderer_new(textures), textures |-> textures,
                      history |-> NoHistory]

NextRenderer ==
    \/ \E color \in Colors : Start(color)
    \/ Finish
    \/ RenderTriangle
    \/ \E id \in 0..MaxTextures : RenderRectangle(id)

SpecRenderer == InitRenderer /\ [][NextRenderer]_vars

(***************************************************************************)
(* Properties                                                              *)
(***************************************************************************)

\* The names of a list.
NamesOf(names) == {names[i] : i \in 1..Len(names)}

\* Generator data that satisfies the invariant of its generator.
ValidGenerator1dData(data) ==
    data.kind = "InputAsOutput" \/ data.noise.min_value <= data.noise.max_value

\* C1: for every list of attribute names and every ModifyWithAttributeData
\* whose source and target are in the list, try_convert succeeds and
\* converting the step back gives the data unchanged (source, target,
\* percentage and minimum).
C1_ModifyDataRoundTrip ==
    conv.type = "ModifyWithAttributeData"
    /\ {conv.data.source, conv.data.target} \subseteq NamesOf(conv.names)
    => /\ conv.result.ok
       /\ conv.stage = "step_to_data" => conv.back = conv.data

\* C2: for every list of attribute names and every Distortion1dData whose
\* attribute is in the list and whose generator data is valid, try_convert
\* succeeds and converting the step back gives the data unchanged.
C2_Distortion1dDataRoundTrip ==
    conv.type = "Distortion1dData"
    /\ conv.data.attribute \in NamesOf(conv.names)
    /\ ValidGenerator1dData(conv.data.generator)
    => /\ conv.result.ok
       /\ conv.stage = "step_to_data" => conv.back = conv.data

\* A Distortion1dData with a noise generator, referring to the second name of
\* the list, came back from the round trip.
C2_Witness ==
    /\ conv.stage = "step_to_data"
    /\ conv.type = "Distortion1dData"
    /\ conv.data.generator.kind = "Noise"
    /\ conv.result.value.attribute_id = 1
    /\ conv.back = conv.data

\* C3: for every step type, every list of attribute names and every runtime
\* step whose ids are positions in the list, converting the step to data and
\* the data back succeeds and yields the same step: the same attribute
\* id(s) and the same generator / factor / minimum.
C3_StepRoundTrip ==
    conv.stage = "back_to_step"
    => /\ conv.again.ok
       /\ conv.again.value = conv.result.value

\* The runtime steps run on the map.
StepOps == {"distort_along_x", "distort_along_y", "run"}

\* The id of the attribute the last step writes.
TargetId == IF op = "run" THEN input.step.target_id ELSE input.step.attribute_id

\* The value of cell (x, y) of attribute `id` before the last step.
PreValue(id, x, y) ==
    Attribute_get(Map2d_get_attribute(pre, id), y * pre.size.width + x)

\* C4: a validated step cannot fail during execution: for every map size,
\* attribute content and generator output, distort_along_x, distort_along_y
\* and ModifyWithAttribute::run complete without a panic.
C4_NoPanic == ~panicked

\* C5: after any sequence of distort_along_x, distort_along_y and
\* ModifyWithAttribute::run every attribute of the map has exactly size.area
\* values.
C5_AttributeShape ==
    \A i \in 1..Len(map.attributes) :
        Len(map.attributes[i].values) = Size2d_get_area(map.size)

\* C6: distort_along_x shifts each row right with edge replication: with
\* shift = generate(y), the new value at (x, y) is the old value at (0, y)
\* when x < shift and the old value at (x - shift, y) otherwise; nothing
\* wraps around and no row leaks into another row.
C6_DistortAlongX ==
    op = "distort_along_x"
    => /\ ~panicked
       /\ LET new == Map2d_get_attribute(map, TargetId).values
              width == pre.size.width
          IN /\ Len(new) = Size2d_get_area(pre.size)
             /\ \A y \in 0..(pre.size.height - 1), x \in 0..(width - 1) :
                   LET shift == Generator1d_generate(input.step.generator, y)
                   IN new[y * width + x + 1] =
                          IF x < shift THEN PreValue(TargetId, 0, y)
                          ELSE PreValue(TargetId, x - shift, y)

\* C7: distort_along_y shifts each column down with edge replication: with
\* shift = generate(x), the new value at (x, y) is the old value at (x, 0)
\* when y < shift and the old value at (x, y - shift) otherwise.
C7_DistortAlongY ==
    op = "distort_along_y"
    => /\ ~panicked
       /\ LET new == Map2d_get_attribute(map, TargetId).values
              width == pre.size.width
          IN /\ Len(new) = Size2d_get_area(pre.size)
             /\ \A y \in 0..(pre.size.height - 1), x \in 0..(width - 1) :
                   LET shift == Generator1d_generate(input.step.generator, x)
                   IN new[y * width + x + 1] =
                          IF y < shift THEN PreValue(TargetId, x, 0)
                          ELSE PreValue(TargetId, x, y - shift)

\* TRUE iff the positive float f is at least the byte k.
F32AtLeast(f, k) ==
    IF f.e >= 0 THEN TRUE
    ELSE IF -f.e >= MantissaBits THEN k = 0
    ELSE f.m >= k * 2 ^ (-f.e)

\* The float f without its fractional part, clamped to the range of a byte:
\* the largest byte that is not above f, and 0 for a negative f.
TruncatedAndClamped(f) ==
    IF f.s < 0 \/ f.m = 0 THEN 0
    ELSE CHOOSE k \in 0..U8Max :
            /\ F32AtLeast(f, k)
            /\ k < U8Max => ~F32AtLeast(f, k + 1)

\* target + difference * percentage / 100 in exact arithmetic, without its
\* fractional part and clamped to the range of a byte.
ExactValue(target, difference, percentage) ==
    LET numerator == 100 * target + difference * percentage
        whole == IF numerator >= 0 THEN numerator \div 100
                 ELSE -((-numerator) \div 100)
    IN IF whole < 0 THEN 0 ELSE IF whole > U8Max THEN U8Max ELSE whole

\* C8: ModifyWithAttribute::run sets every cell of the target to
\* target + (max(source, minimum) - minimum) * factor, computed in f32 from
\* the values before the step (also when source and target are the same
\* attribute), with the fractional part dropped and the result clamped to
\* 0..255; the result is within one of the exact value for the percentage,
\* and a cell whose source is <= minimum keeps its target value.
C8_ModifyFormula ==
    op = "run"
    => /\ ~panicked
       /\ LET step == input.step
              new == Map2d_get_attribute(map, step.target_id).values
          IN /\ Len(new) = Size2d_get_area(pre.size)
             /\ \A i \in 1..Len(new) :
                   LET source == Map2d_get_attribute(pre, step.source_id).values[i]
                       target == Map2d_get_attribute(pre, step.target_id).values[i]
                       difference == u8_max(source, step.minimum) - step.minimum
                       sum == F32Add(I32ToF32(target),
                                     F32Mul(I32ToF32(difference), step.factor))
                       exact == ExactValue(target, difference, input.data.percentage)
                   IN /\ new[i] = TruncatedAndClamped(sum)
                      /\ new[i] - exact \in {-1, 0, 1}
                      /\ source <= step.minimum => new[i] = target

\* A step whose source is its own target ran, and a cell whose exact value
\* lies above 255 was clamped to 255.
C8_Witness ==
    /\ op = "run"
    /\ ~panicked
    /\ input.step.source_id = input.step.target_id
    /\ \E i \in 1..Size2d_get_area(pre.size) :
          LET old == Map2d_get_attribute(pre, input.step.target_id).values[i]
              difference == u8_max(old, input.step.minimum) - input.step.minimum
          IN /\ 100 * old + difference * input.data.percentage > 100 * (U8Max + 1)
             /\ Map2d_get_attribute(map, input.step.target_id).values[i] = U8Max

\* The attribute names a step's data refers to.
ReferencedNames(data) ==
    IF data.type = "Distortion1dData" THEN {data.attribute}
    ELSE {data.source, data.target}

\* C9: converting step data that refers to an unknown attribute fails and
\* changes nothing: try_convert returns the error UnknownAttribute for a name
\* that is not in the list, no runtime step is produced and the map is the
\* same as before.
C9_UnknownAttributeFails ==
    conv.stage = "data_to_step"
    /\ ~(ReferencedNames(conv.data) \subseteq NamesOf(conv.names))
    => /\ ~conv.result.ok
       /\ "value" \notin DOMAIN conv.result
       /\ conv.result.error[1] = "UnknownAttribute"
       /\ conv.result.error[2] \in ReferencedNames(conv.data) \ NamesOf(conv.names)
       /\ map = pre

\* A ModifyWithAttributeData with a known source and an unknown target was
\* rejected.
C9_Witness ==
    /\ conv.stage = "data_to_step"
    /\ conv.type = "ModifyWithAttributeData"
    /\ conv.data.source \in NamesOf(conv.names)
    /\ conv.data.target \notin NamesOf(conv.names)
    /\ ~conv.result.ok

\* C10: a step writes only its target: after distort_along_x,
\* distort_along_y or ModifyWithAttribute::run every other attribute has the
\* values it had before, and the size of the map, the number of attributes,
\* their names and their ids are unchanged.
C10_StepWritesOnlyTarget ==
    op \in StepOps
    => /\ map.size = pre.size
       /\ Len(map.attributes) = Len(pre.attributes)
       /\ \A i \in 1..Len(pre.attributes) :
             /\ map.attributes[i].name = pre.attributes[i].name
             /\ map.attributes[i].size = pre.attributes[i].size
             /\ i - 1 # TargetId => map.attributes[i].values = pre.attributes[i].values

\* A ModifyWithAttribute changed its target and left its source, another
\* attribute, alone.
C10_Witness ==
    /\ op = "run"
    /\ input.step.source_id # input.step.target_id
    /\ Map2d_get_attribute(map, input.step.target_id).values
           # Map2d_get_attribute(pre, input.step.target_id).values
    /\ Map2d_get_attribute(map, input.step.source_id).values
           = Map2d_get_attribute(pre, input.step.source_id).values

\* C11: a Generator2dData of any variant that try_from accepts comes back
\* equal from From<&Generator2d>: the same variant, wrapped generator data,
\* centre and size.
C11_Generator2dDataRoundTrip ==
    call.fn = "Generator2dData::from" =>
        /\ call.before.fn = "Generator2d::try_from"
        /\ call.before.result.ok
        /\ call.result = call.before.self

\* A distance generator around a centre with two different coordinates and
\* with a noise generator came back.
C11_Witness ==
    /\ call.fn = "Generator2dData::from"
    /\ call.before.self.kind = "ApplyToDistance"
    /\ call.before.self.center_x # call.before.self.center_y
    /\ call.before.self.generator.kind = "Noise"
    /\ call.result.kind = "ApplyToDistance"

\* The index of (x, y) after both were clamped into the size, reduced to a
\* byte.
ClampedIndexByte(size, x, y) ==
    LET cx == IF x < size.width THEN x ELSE size.width - 1
        cy == IF y < size.height THEN y ELSE size.height - 1
    IN (cx + cy * size.width) % 256

\* C12: IndexGenerator(size).generate(x, y) is x + y * width reduced to a
\* byte inside the size, the value of the clamped coordinates outside of
\* it, and size 2x3 yields 0..5 in row-major order.
C12_IndexGenerator ==
    (call.fn = "Generator2d::generate" /\ call.self.kind = "IndexGenerator") =>
        LET size == call.self.size
            x == call.input[1]
            y == call.input[2]
            value == call.result.value
        IN /\ value \in 0..255
           /\ (x < size.width /\ y < size.height) =>
                 value = (x + y * size.width) % 256
           /\ value = ClampedIndexByte(size, x, y)
           /\ (size = [width |-> 2, height |-> 3] /\ x < 2 /\ y < 3) =>
                 value = <<0, 1, 2, 3, 4, 5>>[y * 2 + x + 1]

\* An index beyond 255 of coordinates outside the size was generated:
\* (1000, 13) in 20x14 is clamped to (19, 13), index 279, byte 23.
C12_Witness ==
    /\ call.fn = "Generator2d::generate"
    /\ call.self.kind = "IndexGenerator"
    /\ call.self.size.width = 20
    /\ call.input = <<1000, 13>>
    /\ call.result.value = 23

\* C13: for a gradient with value_start < value_end and length > 0,
\* generate gives value_start for every input <= start, and a later call
\* with a larger input from start on never gives less, also beyond
\* start + length.
C13_GradientMonotone ==
    (/\ call.fn = "Gradient::generate"
     /\ call.self.value_start < call.self.value_end
     /\ call.self.length > 0) =>
        /\ call.input[1] <= call.self.start =>
              call.result.value = call.self.value_start
        /\ (/\ call.before.fn = "Gradient::generate"
            /\ call.before.input[1] >= call.self.start
            /\ call.before.input[1] <= call.input[1]) =>
              call.before.result.value <= call.result.value

\* Two inputs beyond start + length were generated and the ramp rose from
\* the first to the second.
C13_Witness ==
    /\ call.fn = "Gradient::generate"
    /\ call.before.fn = "Gradient::generate"
    /\ call.self.value_start < call.self.value_end
    /\ call.self.length > 0
    /\ call.before.input[1] > call.self.start + call.self.length
    /\ call.before.input[1] < call.input[1]
    /\ call.before.result.value < call.result.value

\* C14: generate_absolute gives the same value for start - d and start + d,
\* and for every input > start the value generate gives.
C14_GradientAbsoluteSymmetric ==
    (call.fn = "Gradient::generate_absolute") =>
        /\ (/\ call.before.fn = "Gradient::generate_absolute"
            /\ call.before.input[1] <= call.self.start
            /\ call.input[1] - call.self.start = call.self.start - call.before.input[1]) =>
              call.result.value = call.before.result.value
        /\ (/\ call.before.fn = "Gradient::generate"
            /\ call.before.input[1] = call.input[1]
            /\ call.input[1] > call.self.start) =>
              call.result.value = call.before.result.value

\* generate_absolute gave the same value, different from value_start, on
\* both sides of the start.
C14_Witness ==
    /\ call.fn = "Gradient::generate_absolute"
    /\ call.before.fn = "Gradient::generate_absolute"
    /\ call.before.input[1] < call.self.start
    /\ call.input[1] - call.self.start = call.self.start - call.before.input[1]
    /\ call.result.value = call.before.result.value
    /\ call.result.value # call.self.value_start

\* C15: for every byte, Const(v).get gives v, and Lookup.get gives the
\* value mapped to the input when the input is a key and the default
\* otherwise, without interpolation between keys; the lookup {1: 25,
\* 3: 100} with default 1 gives 1, 25, 1, 100, 1 for the inputs 0..4.
C15_SelectorConstAndLookup ==
    (call.fn = "Selector::get") =>
        LET selector == call.self
            key == call.input[1]
            value == call.result.value
        IN /\ value \in 0..255
           /\ selector.kind = "Const" => value = selector.value
           /\ selector.kind = "Lookup" =>
                 /\ \A k \in DOMAIN selector.lookup :
                        k = key => value = selector.lookup[k]
                 /\ (\A k \in DOMAIN selector.lookup : k # key) =>
                        value = selector.default
                 /\ (selector.lookup = DocLookup /\ selector.default = 1 /\ key <= 4) =>
                        value = <<1, 25, 1, 100, 1>>[key + 1]

\* The lookup of the doc test was asked for 2, which lies between its keys
\* 1 and 3, and gave its default.
C15_Witness ==
    /\ call.fn = "Selector::get"
    /\ call.self.kind = "Lookup"
    /\ call.self.lookup = DocLookup
    /\ call.self.default = 1
    /\ call.input = <<2>>
    /\ call.result.value = 1

\* C16: a frame target is held exactly when the latest call of start or
\* finish was start; a start empties the vertices of the colour builder and
\* of every texture builder, so that a finish draws only what was rendered
\* since the latest start; a finish succeeds only when a start happened
\* since the previous finish, and fails without drawing otherwise.
C16_FrameProtocol ==
    LET history == renderer.history
        self == renderer.self
    IN renderer.textures >= 0 =>
        /\ self.target.some <=> history.last = "start"
        /\ (op = "start" /\ ~panicked) =>
              /\ self.color_builder = <<>>
              /\ \A id \in DOMAIN self.texture_data : self.texture_data[id] = <<>>
        /\ \A i \in DOMAIN history.presented.draws :
              \A j \in DOMAIN history.presented.draws[i] :
                  history.presented.draws[i][j] = history.presented.number
        /\ (op = "finish" /\ ~panicked) =>
              /\ history.previous = "start"
              /\ history.presented.draws = <<self.color_builder>> \o self.texture_data
        /\ (op = "finish" /\ history.previous # "start") => panicked
        /\ history.draw_calls = history.finished * (1 + renderer.textures)
        /\ history.finished <= self.frames

\* The second frame was finished with shapes of the colour builder and of a
\* texture builder, all of them rendered in that frame.
C16_Witness ==
    /\ op = "finish"
    /\ ~panicked
    /\ renderer.textures = 1
    /\ renderer.history.finished = 2
    /\ renderer.history.presented.number = 2
    /\ renderer.history.presented.draws = <<<<2>>, <<2, 2>>>>

=============================================================================
